---------------------------- MODULE Spec2Model ----------------------------
(***************************************************************************)
(* DIT4192 register transport over the ATtiny USI (three-wire mode), as    *)
(* implemented in src/DIT4192/spdif2digitech.c.                            *)
(*                                                                         *)
(* The model follows the C statements one by one.  The I/O registers       *)
(* (DDRB, PORTB, USIDR, USISR, USICR, MCUCR, SREG.I) are state; what a     *)
(* write to one of them does is the behaviour of the USI peripheral in the *)
(* mode the code programs (USIWM0 | USICS1 | USICLK | USITC).              *)
(*                                                                         *)
(* Three harnesses drive the code:                                         *)
(*   "main"     the program itself, from reset;                            *)
(*   "driver"   DIT4192WriteReg / DIT4192ReadReg called with arbitrary     *)
(*              arguments against a peer that shifts bytes back;           *)
(*   "loopback" SPISend called with arbitrary bytes, the data-out pin      *)
(*              wired to data-in.                                          *)
(***************************************************************************)
EXTENDS Integers, Sequences, FiniteSets, TLC

VARIABLES
    harness,    \* which harness drives the code (fixed by Init)
    mpc,        \* position in main (or "harness" in a call harness)
    fn,         \* register-transport function in progress, or "none"
    tpc,        \* position in DIT4192WriteReg / DIT4192ReadReg
    spc,        \* position in SPISend
    reg,        \* parameter reg of the function in progress
    value,      \* parameter value (WriteReg) / local value (ReadReg)
    b,          \* parameter b of SPISend
    ret,        \* byte returned by the last SPISend, until the caller drops it
    result,     \* byte returned by the last DIT4192ReadReg to its caller
    DDRB,       \* port B data direction register
    PORTB,      \* port B data register
    USIDR,      \* USI data (shift) register
    USISR,      \* USI status register: flags in bits 7..4, counter in 3..0
    USICR,      \* USI control register (stored bits 7..2)
    latch,      \* USI data-output latch (drives DO in three-wire mode)
    MCUCR,      \* MCU control register (sleep mode / sleep enable)
    SREG_I,     \* global interrupt enable
    usiStuck,   \* the USI no longer reacts to clock strobes (stuck peripheral)
    peerByte,   \* byte the peer shifts back during the current exchange
    doBits,     \* recorder: DO level at each rising SCK edge of this exchange
    diBits,     \* recorder: DI level at each rising SCK edge of this exchange
    toggles,    \* recorder: SCK toggles since SPISend was entered
    entrySR,    \* recorder: USISR as the current SPISend call found it
    log,        \* recorder: chip-select edges and exchanged bytes
    invocations \* recorder: number of times main has been entered

vars == << harness, mpc, fn, tpc, spc, reg, value, b, ret, result,
           DDRB, PORTB, USIDR, USISR, USICR, latch, MCUCR, SREG_I, usiStuck,
           peerByte, doBits, diBits, toggles, entrySR, log, invocations >>

cpuVars  == << mpc, fn, tpc, spc, reg, value, b, ret, result >>
ioVars   == << DDRB, PORTB, USIDR, USISR, USICR, latch, MCUCR, SREG_I, usiStuck >>
recVars  == << peerByte, doBits, diBits, toggles, entrySR, log >>

---------------------------------------------------------------------------
(* Bounds of the model *)

\* how many of PeerSample's bytes the peer may shift back
NumPeerBytes == 2
\* how many of ValueSample's bytes are written to every register address
NumSampleValues == 1
\* how many of RegSample's addresses are written with every byte value
NumSampleRegs == 1
\* how many times the entry point may be entered again after parking
MaxInvocations == 2

PeerSample == << 165, 0, 255, 90, 129, 126 >>
ValueSample == << 20, 2, 255, 0 >>
RegSample == << 3, 2, 63, 0 >>

PeerBytes == { PeerSample[i] : i \in 1..NumPeerBytes }
SampleValues == { ValueSample[i] : i \in 1..NumSampleValues }
SampleRegs == { RegSample[i] : i \in 1..NumSampleRegs }

Byte == 0..255
\* no byte: a parameter, local or return value that is not live
NoByte == 0 - 1

---------------------------------------------------------------------------
(* 8-bit arithmetic as the compiler performs it on uint8_t *)

Pow2(n) == 2^n

Bit(x, n) == (x \div Pow2(n)) % 2

RECURSIVE AndFrom(_, _, _)
AndFrom(x, y, n) ==
    IF n > 7 THEN 0
    ELSE Bit(x, n) * Bit(y, n) * Pow2(n) + AndFrom(x, y, n + 1)

BitAnd(x, y) == AndFrom(x, y, 0)

BitNot(x) == 255 - x

BitOr(x, y) == BitNot(BitAnd(BitNot(x), BitNot(y)))

BitXor(x, y) == BitAnd(BitOr(x, y), BitNot(BitAnd(x, y)))

_BV(n) == Pow2(n)

---------------------------------------------------------------------------
(* Pin and register-bit numbers *)

DIT4192_CS == 4
SCK == 2
DOUT == 1

AUDIO_SERIAL_PORT_CONTROL == 3
WLEN0 == 2
JUS == 4
POWER_DOWN_AND_CLOCK_CONTROL == 2
CLK0 == 1

\* USISR / USICR / MCUCR bit numbers of the device header (avr/io.h)
USISIF == 7
USIOIF == 6
USIWM0 == 4
USICS1 == 3
USICLK == 1
USITC == 0
SM1 == 4
SM0 == 3
SE == 5

---------------------------------------------------------------------------
(* The lines as the peer chip sees them *)

\* chip-select is asserted when PB4 is an output and driven low; as an
\* input (after reset) the pin floats and is not driven low.
CSAsserted == Bit(DDRB, DIT4192_CS) = 1 /\ Bit(PORTB, DIT4192_CS) = 0

SCKLevel == Bit(PORTB, SCK)

\* In three-wire mode the USI overrides PORTB1 with its output latch.
DOLevel == IF Bit(USICR, USIWM0) = 1 THEN latch ELSE Bit(PORTB, DOUT)

---------------------------------------------------------------------------
(* The bus recorder on the peer's side of the wires.  It sees only the     *)
(* lines: chip-select edges, and the data lines at each rising SCK edge,   *)
(* eight of which make a byte, first bit sampled = most significant.       *)

RECURSIVE BitsFrom(_, _)
BitsFrom(bits, i) ==
    IF i > Len(bits) THEN 0
    ELSE bits[i] * Pow2(Len(bits) - i) + BitsFrom(bits, i + 1)

BitsToByte(bits) == BitsFrom(bits, 1)

RecBit(bits, bit) == IF Len(bits) >= 8 THEN << bit >> ELSE Append(bits, bit)

RecCS(was, now, l) ==
    IF was = now THEN l
    ELSE IF now THEN Append(l, << "SEL" >>) ELSE Append(l, << "DESEL" >>)

\* a chip-select edge restarts the byte framing
RecFrame(was, now, bits) == IF was = now THEN bits ELSE << >>

RecByte(bits, l) ==
    IF Len(bits) = 8 THEN Append(l, << "BYTE", BitsToByte(bits) >>) ELSE l

CSAssertedAt(ddrb, portb) ==
    Bit(ddrb, DIT4192_CS) = 1 /\ Bit(portb, DIT4192_CS) = 0

---------------------------------------------------------------------------
(* Chip-select macros (lines 10-11) *)

\* what line 10 is not: an assignment of the whole port
SELECT_Assign(portb) == BitNot(_BV(DIT4192_CS))

SELECT(portb) == BitAnd(portb, BitNot(_BV(DIT4192_CS)))

DESELECT_Skipped(portb) == portb

DESELECT(portb) == BitOr(portb, _BV(DIT4192_CS))

---------------------------------------------------------------------------
(* The USI peripheral, as programmed by lines 185-190 *)

\* what line 187 is not: a write that leaves the status register alone
USISRWrite_NoClear(sr, w) == sr

\* what line 187 is not: a write that preloads the counter with 1
USISRWrite_Preload1(sr, w) ==
    BitOr(BitAnd(BitAnd(sr, 240), BitNot(BitAnd(w, 224))), BitOr(BitAnd(w, 15), 1))

\* A write to USISR: writing one to USISIF, USIOIF or USIPF clears that
\* flag, USIDC is read-only, and the low nibble loads the 4-bit counter.
USISRWrite(sr, w) ==
    BitOr(BitAnd(BitAnd(sr, 240), BitNot(BitAnd(w, 224))), BitAnd(w, 15))

USICount_Overflow8(sr) ==
    LET c == sr % 16
        flags == BitOr(sr - c, _BV(USISIF))
    IN  BitOr(flags, IF c = 7 THEN _BV(USIOIF) ELSE 0) + ((c + 1) % 16)

\* One clock strobe: the 4-bit counter advances, its wrap from 15 to 0 sets
\* USIOIF; in three-wire mode any SCK edge also sets USISIF.
USICount(sr) ==
    LET c == sr % 16
        flags == BitOr(sr - c, _BV(USISIF))
    IN  BitOr(flags, IF c = 15 THEN _BV(USIOIF) ELSE 0) + ((c + 1) % 16)

USIShift_LSBFirst(dr, di) == (dr \div 2) + 128 * di

USIShift_NoSample(dr, di) == ((2 * dr) % 256) + 0 * di

\* One shift of the data register: every bit moves up, DI enters at bit 0.
USIShift(dr, di) == ((2 * dr) % 256) + di

\* what line 190 is not: the control bits without the clock strobes
USICRValue_NoStrobe == BitOr(_BV(USIWM0), _BV(USICS1))

\* The value line 190 writes to USICR.
USICRValue ==
    BitOr(BitOr(_BV(USIWM0), _BV(USICS1)), BitOr(_BV(USICLK), _BV(USITC)))

\* what line 189 is not: a poll that gives up
SPISendWaiting_GiveUp(sr) == FALSE

\* The loop condition of line 189: !(USISR & _BV(USIOIF)).
SPISendWaiting(sr) == BitAnd(sr, _BV(USIOIF)) = 0

\* The output latch follows bit 7 of USIDR while it is open: always with an
\* internal clock (USICS1 = 0), and while SCK is low with an external one.
LatchOpen == Bit(USICR, USICS1) = 0 \/ Bit(PORTB, SCK) = 0

---------------------------------------------------------------------------
(* uint8_t SPISend (uint8_t b), lines 183-195 *)

\* line 185: USIDR = b;
SPISendLoad ==
    /\ spc = "USIDR"
    /\ USIDR' = b
    /\ latch' = IF LatchOpen THEN Bit(b, 7) ELSE latch
    /\ spc' = "USISR"
    /\ toggles' = 0
    /\ entrySR' = USISR
    /\ UNCHANGED << harness, mpc, fn, tpc, reg, value, b, ret, result >>
    /\ UNCHANGED << DDRB, PORTB, USISR, USICR, MCUCR, SREG_I, usiStuck >>
    /\ UNCHANGED << peerByte, doBits, diBits, log, invocations >>

\* line 187: USISR = _BV(USIOIF);
SPISendClear ==
    /\ spc = "USISR"
    /\ USISR' = USISRWrite(USISR, _BV(USIOIF))
    /\ spc' = "while"
    /\ UNCHANGED << harness, mpc, fn, tpc, reg, value, b, ret, result >>
    /\ UNCHANGED << DDRB, PORTB, USIDR, USICR, latch, MCUCR, SREG_I, usiStuck >>
    /\ UNCHANGED << recVars, invocations >>

\* line 189: while (!(USISR & _BV(USIOIF)))
SPISendWhile ==
    /\ spc = "while"
    /\ spc' = IF SPISendWaiting(USISR) THEN "USICR" ELSE "return"
    /\ UNCHANGED << harness, mpc, fn, tpc, reg, value, b, ret, result >>
    /\ UNCHANGED << ioVars, recVars, invocations >>

\* line 190: USICR = _BV(USIWM0) | _BV(USICS1) | _BV(USICLK) | _BV(USITC);
\* USITC toggles the SCK port bit; USICS1 with USICLK clocks the counter
\* from that strobe; USICS1 without USICS0 shifts the data register on the
\* rising edge of SCK and lets the output latch follow on the falling one.
\* A stuck USI stores the control bits and ignores both strobes.
SPISendToggle ==
    /\ spc = "USICR"
    /\ LET w == USICRValue
           tc == Bit(w, USITC) = 1 /\ ~usiStuck
           clk == Bit(w, USICLK) = 1 /\ ~usiStuck
           portb == IF tc THEN BitXor(PORTB, _BV(SCK)) ELSE PORTB
           rising == Bit(PORTB, SCK) = 0 /\ Bit(portb, SCK) = 1
           falling == Bit(PORTB, SCK) = 1 /\ Bit(portb, SCK) = 0
           start == Len(diBits) \in {0, 8}
       IN  /\ USICR' = BitAnd(w, 252)
           /\ PORTB' = portb
           /\ USISR' = IF clk THEN USICount(USISR) ELSE USISR
           /\ toggles' = IF tc THEN toggles + 1 ELSE toggles
           /\ IF rising
              THEN /\ \E p \in (IF start /\ harness # "loopback"
                                THEN PeerBytes ELSE {peerByte}) :
                        LET di == IF harness = "loopback" THEN latch
                                  ELSE Bit(p, 7 - (Len(diBits) % 8))
                        IN  /\ peerByte' = p
                            /\ diBits' = RecBit(diBits, di)
                            /\ USIDR' = USIShift(USIDR, di)
                   /\ latch' = latch
                   /\ doBits' = RecBit(doBits, latch)
                   /\ log' = RecByte(RecBit(doBits, latch), log)
              ELSE /\ latch' = IF falling THEN Bit(USIDR, 7) ELSE latch
                   /\ UNCHANGED << USIDR, peerByte, doBits, diBits, log >>
    /\ spc' = "while"
    /\ UNCHANGED << harness, mpc, fn, tpc, reg, value, b, ret, result >>
    /\ UNCHANGED << DDRB, MCUCR, SREG_I, usiStuck, entrySR, invocations >>

\* line 193: return USIDR;
SPISendReturn ==
    /\ spc = "return"
    /\ ret' = USIDR
    /\ spc' = "done"
    /\ UNCHANGED << harness, mpc, fn, tpc, reg, value, b, result >>
    /\ UNCHANGED << ioVars, recVars, invocations >>

SPISend ==
    \/ SPISendLoad
    \/ SPISendClear
    \/ SPISendWhile
    \/ SPISendToggle
    \/ SPISendReturn

---------------------------------------------------------------------------
(* void DIT4192WriteReg (uint8_t reg, uint8_t value), lines 198-204 *)

SendIndex(pc) == CASE pc = "send1" -> 1 [] pc = "send2" -> 2 [] pc = "send3" -> 3

AfterSend(pc) ==
    CASE pc = "send1" -> "send2" [] pc = "send2" -> "send3" [] pc = "send3" -> "DESELECT"

Sends == { "send1", "send2", "send3" }

\* what line 202 is not: a data byte that depends on what came back
WriteRegByte_Echo(k, r, v) ==
    CASE k = 1 -> BitAnd(r, 63)
      [] k = 2 -> 255
      [] k = 3 -> peerByte

WriteRegByte_NoMask(k, r, v) ==
    CASE k = 1 -> r
      [] k = 2 -> 255
      [] k = 3 -> v

WriteRegByte_NoDummy(k, r, v) ==
    CASE k = 1 -> BitAnd(r, 63)
      [] k = 2 -> v
      [] k = 3 -> v

\* The argument of the k-th SPISend call of DIT4192WriteReg (lines 200-202).
WriteRegByte(k, r, v) ==
    CASE k = 1 -> BitAnd(r, 63)
      [] k = 2 -> 255
      [] k = 3 -> v

\* line 199: SELECT;
WriteRegSELECT ==
    /\ fn = "WriteReg" /\ tpc = "SELECT"
    /\ PORTB' = SELECT(PORTB)
    /\ log' = RecCS(CSAsserted, CSAssertedAt(DDRB, PORTB'), log)
    /\ doBits' = RecFrame(CSAsserted, CSAssertedAt(DDRB, PORTB'), doBits)
    /\ diBits' = RecFrame(CSAsserted, CSAssertedAt(DDRB, PORTB'), diBits)
    /\ tpc' = "send1"
    /\ UNCHANGED << harness, mpc, fn, spc, reg, value, b, ret, result >>
    /\ UNCHANGED << DDRB, USIDR, USISR, USICR, latch, MCUCR, SREG_I, usiStuck >>
    /\ UNCHANGED << peerByte, toggles, entrySR, invocations >>

\* lines 200-202: the call of SPISend with the k-th byte
WriteRegSend ==
    /\ fn = "WriteReg" /\ tpc \in Sends /\ spc = "idle"
    /\ b' = WriteRegByte(SendIndex(tpc), reg, value)
    /\ spc' = "USIDR"
    /\ UNCHANGED << harness, mpc, fn, tpc, reg, value, ret, result >>
    /\ UNCHANGED << ioVars, recVars, invocations >>

\* lines 200-202: SPISend has returned; its value is not used
WriteRegNext ==
    /\ fn = "WriteReg" /\ tpc \in Sends /\ spc = "done"
    /\ ret' = NoByte
    /\ b' = NoByte
    /\ spc' = "idle"
    /\ tpc' = AfterSend(tpc)
    /\ UNCHANGED << harness, mpc, fn, reg, value, result >>
    /\ UNCHANGED << ioVars, recVars, invocations >>

\* line 203: DESELECT;
WriteRegDESELECT ==
    /\ fn = "WriteReg" /\ tpc = "DESELECT"
    /\ PORTB' = DESELECT(PORTB)
    /\ log' = RecCS(CSAsserted, CSAssertedAt(DDRB, PORTB'), log)
    /\ doBits' = RecFrame(CSAsserted, CSAssertedAt(DDRB, PORTB'), doBits)
    /\ diBits' = RecFrame(CSAsserted, CSAssertedAt(DDRB, PORTB'), diBits)
    /\ tpc' = "return"
    /\ UNCHANGED << harness, mpc, fn, spc, reg, value, b, ret, result >>
    /\ UNCHANGED << DDRB, USIDR, USISR, USICR, latch, MCUCR, SREG_I, usiStuck >>
    /\ UNCHANGED << peerByte, toggles, entrySR, invocations >>

AfterCall_SkipSecond(pc) ==
    CASE pc = "write1" -> "cli"
      [] pc = "write2" -> "cli"
      [] pc = "harness" -> "harness"

\* The statement of the caller that follows a returned call.
AfterCall(pc) ==
    CASE pc = "write1" -> "write2"
      [] pc = "write2" -> "cli"
      [] pc = "harness" -> "harness"

\* line 204: return to the caller
WriteRegReturn ==
    /\ fn = "WriteReg" /\ tpc = "return"
    /\ fn' = "none"
    /\ tpc' = "idle"
    /\ reg' = NoByte
    /\ value' = NoByte
    /\ mpc' = AfterCall(mpc)
    /\ UNCHANGED << harness, spc, b, ret, result >>
    /\ UNCHANGED << ioVars, recVars, invocations >>

DIT4192WriteReg ==
    \/ WriteRegSELECT
    \/ WriteRegSend
    \/ WriteRegNext
    \/ WriteRegDESELECT
    \/ WriteRegReturn

---------------------------------------------------------------------------
(* uint8_t DIT4192ReadReg (uint8_t reg), lines 206-214 *)

\* The argument of the k-th SPISend call of DIT4192ReadReg (lines 209-211).
ReadRegByte(k, r) ==
    CASE k = 1 -> BitOr(BitAnd(r, 63), 128)
      [] k = 2 -> 255
      [] k = 3 -> 255

ReadRegCapture_Second(k, returned, v) == IF k = 2 THEN returned ELSE v

\* The local `value` after the k-th SPISend has returned: only line 211
\* assigns it.
ReadRegCapture(k, returned, v) == IF k = 3 THEN returned ELSE v

\* line 208: SELECT;
ReadRegSELECT ==
    /\ fn = "ReadReg" /\ tpc = "SELECT"
    /\ PORTB' = SELECT(PORTB)
    /\ log' = RecCS(CSAsserted, CSAssertedAt(DDRB, PORTB'), log)
    /\ doBits' = RecFrame(CSAsserted, CSAssertedAt(DDRB, PORTB'), doBits)
    /\ diBits' = RecFrame(CSAsserted, CSAssertedAt(DDRB, PORTB'), diBits)
    /\ tpc' = "send1"
    /\ UNCHANGED << harness, mpc, fn, spc, reg, value, b, ret, result >>
    /\ UNCHANGED << DDRB, USIDR, USISR, USICR, latch, MCUCR, SREG_I, usiStuck >>
    /\ UNCHANGED << peerByte, toggles, entrySR, invocations >>

\* lines 209-211: the call of SPISend with the k-th byte
ReadRegSend ==
    /\ fn = "ReadReg" /\ tpc \in Sends /\ spc = "idle"
    /\ b' = ReadRegByte(SendIndex(tpc), reg)
    /\ spc' = "USIDR"
    /\ UNCHANGED << harness, mpc, fn, tpc, reg, value, ret, result >>
    /\ UNCHANGED << ioVars, recVars, invocations >>

\* lines 209-211: SPISend has returned; line 211 keeps its value
ReadRegNext ==
    /\ fn = "ReadReg" /\ tpc \in Sends /\ spc = "done"
    /\ value' = ReadRegCapture(SendIndex(tpc), ret, value)
    /\ ret' = NoByte
    /\ b' = NoByte
    /\ spc' = "idle"
    /\ tpc' = AfterSend(tpc)
    /\ UNCHANGED << harness, mpc, fn, reg, result >>
    /\ UNCHANGED << ioVars, recVars, invocations >>

\* line 212: DESELECT;
ReadRegDESELECT ==
    /\ fn = "ReadReg" /\ tpc = "DESELECT"
    /\ PORTB' = DESELECT(PORTB)
    /\ log' = RecCS(CSAsserted, CSAssertedAt(DDRB, PORTB'), log)
    /\ doBits' = RecFrame(CSAsserted, CSAssertedAt(DDRB, PORTB'), doBits)
    /\ diBits' = RecFrame(CSAsserted, CSAssertedAt(DDRB, PORTB'), diBits)
    /\ tpc' = "return"
    /\ UNCHANGED << harness, mpc, fn, spc, reg, value, b, ret, result >>
    /\ UNCHANGED << DDRB, USIDR, USISR, USICR, latch, MCUCR, SREG_I, usiStuck >>
    /\ UNCHANGED << peerByte, toggles, entrySR, invocations >>

\* line 213: return (value);
ReadRegReturn ==
    /\ fn = "ReadReg" /\ tpc = "return"
    /\ result' = value
    /\ fn' = "none"
    /\ tpc' = "idle"
    /\ reg' = NoByte
    /\ value' = NoByte
    /\ mpc' = AfterCall(mpc)
    /\ UNCHANGED << harness, spc, b, ret >>
    /\ UNCHANGED << ioVars, recVars, invocations >>

DIT4192ReadReg ==
    \/ ReadRegSELECT
    \/ ReadRegSend
    \/ ReadRegNext
    \/ ReadRegDESELECT
    \/ ReadRegReturn

---------------------------------------------------------------------------
(* int main (), lines 157-180 *)

\* line 159: the value assigned to DDRB
MainDDRBValue == BitOr(BitOr(_BV(DIT4192_CS), _BV(SCK)), _BV(DOUT))

MainWriteArgs_Swapped(n) ==
    IF n = 1
    THEN << POWER_DOWN_AND_CLOCK_CONTROL, _BV(CLK0) >>
    ELSE << AUDIO_SERIAL_PORT_CONTROL, BitOr(_BV(JUS), _BV(WLEN0)) >>

\* lines 167 and 170: the arguments of the two DIT4192WriteReg calls
MainWriteArgs(n) ==
    IF n = 1
    THEN << AUDIO_SERIAL_PORT_CONTROL, BitOr(_BV(JUS), _BV(WLEN0)) >>
    ELSE << POWER_DOWN_AND_CLOCK_CONTROL, _BV(CLK0) >>

\* line 159: DDRB = _BV(DIT4192_CS) | _BV(SCK) | _BV(DOUT);
MainDDRB ==
    /\ mpc = "ddrb"
    /\ DDRB' = MainDDRBValue
    /\ log' = RecCS(CSAsserted, CSAssertedAt(DDRB', PORTB), log)
    /\ doBits' = RecFrame(CSAsserted, CSAssertedAt(DDRB', PORTB), doBits)
    /\ diBits' = RecFrame(CSAsserted, CSAssertedAt(DDRB', PORTB), diBits)
    /\ mpc' = "deselect"
    /\ UNCHANGED << harness, fn, tpc, spc, reg, value, b, ret, result >>
    /\ UNCHANGED << PORTB, USIDR, USISR, USICR, latch, MCUCR, SREG_I, usiStuck >>
    /\ UNCHANGED << peerByte, toggles, entrySR, invocations >>

\* what lines 161-163 are not: a deassert that goes on without the delay
MainDESELECT_SkipDelay ==
    /\ mpc = "deselect"
    /\ PORTB' = DESELECT(PORTB)
    /\ log' = RecCS(CSAsserted, CSAssertedAt(DDRB, PORTB'), log)
    /\ doBits' = RecFrame(CSAsserted, CSAssertedAt(DDRB, PORTB'), doBits)
    /\ diBits' = RecFrame(CSAsserted, CSAssertedAt(DDRB, PORTB'), diBits)
    /\ mpc' = "write1"
    /\ UNCHANGED << harness, fn, tpc, spc, reg, value, b, ret, result >>
    /\ UNCHANGED << DDRB, USIDR, USISR, USICR, latch, MCUCR, SREG_I, usiStuck >>
    /\ UNCHANGED << peerByte, toggles, entrySR, invocations >>

\* line 161: DESELECT;
MainDESELECT ==
    /\ mpc = "deselect"
    /\ PORTB' = DESELECT(PORTB)
    /\ log' = RecCS(CSAsserted, CSAssertedAt(DDRB, PORTB'), log)
    /\ doBits' = RecFrame(CSAsserted, CSAssertedAt(DDRB, PORTB'), doBits)
    /\ diBits' = RecFrame(CSAsserted, CSAssertedAt(DDRB, PORTB'), diBits)
    /\ mpc' = "delay"
    /\ UNCHANGED << harness, fn, tpc, spc, reg, value, b, ret, result >>
    /\ UNCHANGED << DDRB, USIDR, USISR, USICR, latch, MCUCR, SREG_I, usiStuck >>
    /\ UNCHANGED << peerByte, toggles, entrySR, invocations >>

\* line 163: _delay_ms (5); the recorder notes that the delay has elapsed
MainDelay ==
    /\ mpc = "delay"
    /\ log' = Append(log, << "SETTLED" >>)
    /\ mpc' = "write1"
    /\ UNCHANGED << harness, fn, tpc, spc, reg, value, b, ret, result >>
    /\ UNCHANGED << ioVars, peerByte, doBits, diBits, toggles, entrySR, invocations >>

\* line 167: DIT4192WriteReg (AUDIO_SERIAL_PORT_CONTROL, _BV(JUS) | _BV(WLEN0));
MainWrite1 ==
    /\ mpc = "write1" /\ fn = "none"
    /\ fn' = "WriteReg"
    /\ reg' = MainWriteArgs(1)[1]
    /\ value' = MainWriteArgs(1)[2]
    /\ tpc' = "SELECT"
    /\ UNCHANGED << harness, mpc, spc, b, ret, result >>
    /\ UNCHANGED << ioVars, recVars, invocations >>

\* line 170: DIT4192WriteReg (POWER_DOWN_AND_CLOCK_CONTROL, _BV(CLK0));
MainWrite2 ==
    /\ mpc = "write2" /\ fn = "none"
    /\ fn' = "WriteReg"
    /\ reg' = MainWriteArgs(2)[1]
    /\ value' = MainWriteArgs(2)[2]
    /\ tpc' = "SELECT"
    /\ UNCHANGED << harness, mpc, spc, b, ret, result >>
    /\ UNCHANGED << ioVars, recVars, invocations >>

\* line 174: cli ();
MainCli ==
    /\ mpc = "cli"
    /\ SREG_I' = FALSE
    /\ mpc' = "set_sleep_mode"
    /\ UNCHANGED << harness, fn, tpc, spc, reg, value, b, ret, result >>
    /\ UNCHANGED << DDRB, PORTB, USIDR, USISR, USICR, latch, MCUCR, usiStuck >>
    /\ UNCHANGED << recVars, invocations >>

\* line 175: set_sleep_mode (SLEEP_MODE_PWR_DOWN); writes SM1:SM0 = 10 and
\* leaves the sleep-enable bit SE as it is.
MainSetSleepMode ==
    /\ mpc = "set_sleep_mode"
    /\ MCUCR' = BitOr(BitAnd(MCUCR, BitNot(BitOr(_BV(SM0), _BV(SM1)))), _BV(SM1))
    /\ mpc' = "sleep_cpu"
    /\ UNCHANGED << harness, fn, tpc, spc, reg, value, b, ret, result >>
    /\ UNCHANGED << DDRB, PORTB, USIDR, USISR, USICR, latch, SREG_I, usiStuck >>
    /\ UNCHANGED << recVars, invocations >>

\* line 176: sleep_cpu (); the SLEEP instruction halts the processor only
\* when SE is set, otherwise execution continues with line 179.
MainSleepCpu ==
    /\ mpc = "sleep_cpu"
    /\ mpc' = IF Bit(MCUCR, SE) = 1 THEN "asleep" ELSE "loop"
    /\ UNCHANGED << harness, fn, tpc, spc, reg, value, b, ret, result >>
    /\ UNCHANGED << ioVars, recVars, invocations >>

\* what line 179 is not: a loop that falls back into the configuration
MainLoop_Reenter ==
    /\ mpc = "loop"
    /\ mpc' = "write1"
    /\ UNCHANGED << harness, fn, tpc, spc, reg, value, b, ret, result >>
    /\ UNCHANGED << ioVars, recVars, invocations >>

\* line 179: while (1);
MainLoop ==
    /\ mpc = "loop"
    /\ UNCHANGED vars

Main ==
    \/ MainDDRB
    \/ MainDESELECT
    \/ MainDelay
    \/ MainWrite1
    \/ MainWrite2
    \/ MainCli
    \/ MainSetSleepMode
    \/ MainSleepCpu
    \/ MainLoop

\* The entry point is entered again (the reset vector leads to line 157):
\* the I/O registers take their reset values, the recorder keeps its log.
MainReinvoke ==
    /\ harness = "main"
    /\ mpc \in { "loop", "asleep" }
    /\ invocations < MaxInvocations
    /\ invocations' = invocations + 1
    /\ mpc' = "ddrb"
    /\ DDRB' = 0 /\ PORTB' = 0
    /\ USIDR' = 0 /\ USISR' = 0 /\ USICR' = 0 /\ latch' = 0
    /\ MCUCR' = 0 /\ SREG_I' = FALSE
    /\ log' = RecCS(CSAsserted, CSAssertedAt(0, 0), log)
    /\ doBits' = RecFrame(CSAsserted, CSAssertedAt(0, 0), doBits)
    /\ diBits' = RecFrame(CSAsserted, CSAssertedAt(0, 0), diBits)
    /\ UNCHANGED << harness, fn, tpc, spc, reg, value, b, ret, result >>
    /\ UNCHANGED << usiStuck, peerByte, toggles, entrySR >>

---------------------------------------------------------------------------
(* Call harnesses: the exported functions called with arbitrary arguments  *)
(* once main's pin setup and settle delay are done.                        *)

\* every register argument with the sampled values, and every value with
\* the sampled registers
WriteArgs ==
    { << r, v >> : r \in Byte, v \in SampleValues }
        \cup { << r, v >> : r \in SampleRegs, v \in Byte }

HarnessWriteReg ==
    /\ harness = "driver" /\ mpc = "harness" /\ fn = "none"
    /\ \E a \in WriteArgs : reg' = a[1] /\ value' = a[2]
    /\ fn' = "WriteReg"
    /\ tpc' = "SELECT"
    /\ result' = NoByte
    /\ log' = << >>
    /\ UNCHANGED << harness, mpc, spc, b, ret >>
    /\ UNCHANGED << ioVars, peerByte, doBits, diBits, toggles, entrySR, invocations >>

HarnessReadReg ==
    /\ harness = "driver" /\ mpc = "harness" /\ fn = "none"
    /\ \E r \in Byte : reg' = r
    /\ value' = NoByte
    /\ fn' = "ReadReg"
    /\ tpc' = "SELECT"
    /\ result' = NoByte
    /\ log' = << >>
    /\ UNCHANGED << harness, mpc, spc, b, ret >>
    /\ UNCHANGED << ioVars, peerByte, doBits, diBits, toggles, entrySR, invocations >>

HarnessSPISend ==
    /\ harness = "loopback" /\ mpc = "harness" /\ spc = "idle"
    /\ \E x \in Byte : b' = x
    /\ spc' = "USIDR"
    /\ result' = NoByte
    /\ log' = << >>
    /\ UNCHANGED << harness, mpc, fn, tpc, reg, value, ret >>
    /\ UNCHANGED << ioVars, peerByte, doBits, diBits, toggles, entrySR, invocations >>

HarnessSPISendReturn ==
    /\ harness = "loopback" /\ mpc = "harness" /\ spc = "done"
    /\ result' = ret
    /\ ret' = NoByte
    /\ b' = NoByte
    /\ spc' = "idle"
    /\ UNCHANGED << harness, mpc, fn, tpc, reg, value >>
    /\ UNCHANGED << ioVars, recVars, invocations >>

\* SPISend called on a USI that earlier use has left in any state: the
\* status register holds any flags and any counter value when line 185
\* is reached.
RearmSPISend ==
    /\ harness = "rearm" /\ mpc = "harness" /\ spc = "idle"
    /\ \E sr \in Byte : USISR' = sr
    /\ \E x \in SampleValues : b' = x
    /\ spc' = "USIDR"
    /\ result' = NoByte
    /\ log' = << >>
    /\ UNCHANGED << harness, mpc, fn, tpc, reg, value, ret >>
    /\ UNCHANGED << DDRB, PORTB, USIDR, USICR, latch, MCUCR, SREG_I, usiStuck >>
    /\ UNCHANGED << peerByte, doBits, diBits, toggles, entrySR, invocations >>

RearmSPISendReturn ==
    /\ harness = "rearm" /\ mpc = "harness" /\ spc = "done"
    /\ result' = ret
    /\ ret' = NoByte
    /\ b' = NoByte
    /\ spc' = "idle"
    /\ UNCHANGED << harness, mpc, fn, tpc, reg, value >>
    /\ UNCHANGED << ioVars, recVars, invocations >>

---------------------------------------------------------------------------
(* Hardware that makes no progress: line 189 polls USIOIF with no bound    *)
(* on the number of passes, so whether the loop ends is up to the USI.     *)

\* From some moment on the USI ignores the strobes written at line 190.
USIFault ==
    /\ ~usiStuck
    /\ usiStuck' = TRUE
    /\ UNCHANGED << harness, cpuVars, recVars, invocations >>
    /\ UNCHANGED << DDRB, PORTB, USIDR, USISR, USICR, latch, MCUCR, SREG_I >>

---------------------------------------------------------------------------
(* Initial states and specifications *)

\* Reset: every I/O register is zero, so PB4 is an input with PORTB4 = 0.
InitRegs ==
    /\ USIDR = 0 /\ USISR = 0 /\ USICR = 0 /\ latch = 0
    /\ MCUCR = 0 /\ SREG_I = FALSE /\ usiStuck = FALSE

InitCpu ==
    /\ fn = "none" /\ tpc = "idle" /\ spc = "idle"
    /\ reg = NoByte /\ value = NoByte /\ b = NoByte
    /\ ret = NoByte /\ result = NoByte

InitRec ==
    /\ peerByte = NoByte /\ doBits = << >> /\ diBits = << >>
    /\ toggles = 0 /\ entrySR = 0 /\ log = << >> /\ invocations = 1

Init ==
    /\ harness = "main"
    /\ mpc = "ddrb"
    /\ DDRB = 0 /\ PORTB = 0
    /\ InitRegs /\ InitCpu /\ InitRec

\* A call harness starts where main stands at line 167: the pins are
\* outputs and PORTB holds the chip-select bit set by line 161.
InitHarness(h) ==
    /\ harness = h
    /\ mpc = "harness"
    /\ DDRB = MainDDRBValue /\ PORTB = _BV(DIT4192_CS)
    /\ InitRegs /\ InitCpu /\ InitRec

InitDriver == InitHarness("driver")

InitLoopback == InitHarness("loopback")

InitRearm == InitHarness("rearm")

Next == Main \/ DIT4192WriteReg \/ SPISend

NextReinvoke == Next \/ MainReinvoke

NextDriver ==
    \/ HarnessWriteReg
    \/ HarnessReadReg
    \/ DIT4192WriteReg
    \/ DIT4192ReadReg
    \/ SPISend

NextLoopback == HarnessSPISend \/ HarnessSPISendReturn \/ SPISend

\* the program, from reset
Spec == Init /\ [][Next]_vars

\* the program, with the entry point entered again after parking
SpecReinvoke == Init /\ [][NextReinvoke]_vars

\* the register transport under arbitrary calls
SpecDriver == InitDriver /\ [][NextDriver]_vars

\* the byte shifter with DO wired to DI
SpecLoopback == InitLoopback /\ [][NextLoopback]_vars

\* the byte shifter entered with the status register in any state
NextRearm == RearmSPISend \/ RearmSPISendReturn \/ SPISend

SpecRearm == InitRearm /\ [][NextRearm]_vars

\* the program from reset, and the register transport under arbitrary calls
InitBus == Init \/ InitDriver

NextBus == Main \/ NextDriver

SpecBus == InitBus /\ [][NextBus]_vars

\* the program on a USI that may stop reacting at any moment
NextStuck == Next \/ USIFault

SpecStuck == Init /\ [][NextStuck]_vars

\* the program on hardware that makes progress: the CPU keeps executing
\* as long as an instruction changes something
SpecFair == Init /\ [][Next]_vars /\ WF_vars(Next)

---------------------------------------------------------------------------
(* Vocabulary of the properties *)

\* what the recorder logs for one register transaction with bytes c, d, e
Transaction(c, d, e) ==
    << << "SEL" >>, << "BYTE", c >>, << "BYTE", d >>, << "BYTE", e >>, << "DESEL" >> >>

IsPrefix(s, t) == Len(s) <= Len(t) /\ SubSeq(t, 1, Len(s)) = s

\* between the SELECT and the DESELECT of a register function
InTransaction == fn \in { "WriteReg", "ReadReg" } /\ tpc \in Sends \cup { "DESELECT" }

\* the terminal part of main: both writes have returned
Parked == mpc \in { "cli", "set_sleep_mode", "sleep_cpu", "asleep", "loop" }

\* the log from the end of the (last) settle delay on
AfterSettle(l) ==
    LET marks == { i \in 1..Len(l) : l[i] = << "SETTLED" >> }
    IN  IF marks = {} THEN << >>
        ELSE SubSeq(l, (CHOOSE i \in marks : \A j \in marks : j <= i) + 1, Len(l))

\* complete write transactions in a log: a select window holding exactly
\* three bytes, the first with the direction bit clear
IsWriteAt(l, i) ==
    /\ i + 4 <= Len(l)
    /\ l[i] = << "SEL" >>
    /\ \A k \in 1..3 : l[i + k][1] = "BYTE"
    /\ Bit(l[i + 1][2], 7) = 0
    /\ l[i + 4] = << "DESEL" >>

NumWrites(l) == Cardinality({ i \in 1..Len(l) : IsWriteAt(l, i) })

---------------------------------------------------------------------------
(* C1: for every address a in 0..63 and value v in 0..255, one call of     *)
(* DIT4192WriteReg(a, v) puts exactly the bytes a, 0xFF, v on the bus,     *)
(* chip-select is asserted before the first byte and throughout, and is    *)
(* deasserted as the next bus event after the third byte.                  *)
C1_WriteFraming ==
    (fn = "WriteReg" /\ reg \in 0..63) =>
        /\ tpc = "return" => log = Transaction(reg % 64, 255, value)
        /\ tpc \in Sends \cup { "DESELECT" } =>
              /\ CSAsserted
              /\ IsPrefix(log, Transaction(reg % 64, 255, value))
              /\ tpc = "DESELECT" => Len(log) = 4
              /\ (tpc \in Sends /\ spc = "idle") => Len(log) = SendIndex(tpc)
              /\ (tpc \in Sends /\ spc = "done") => Len(log) = SendIndex(tpc) + 1

C1_Witness ==
    /\ fn = "WriteReg" /\ tpc = "return" /\ reg = 3 /\ value = 165
    /\ log = Transaction(3, 255, 165)
    /\ ~CSAsserted

---------------------------------------------------------------------------
(* C2: for every address a in 0..63 and whatever bytes the peer shifts     *)
(* back, one call of DIT4192ReadReg(a) puts exactly the bytes a + 0x80,    *)
(* 0xFF, 0xFF on the bus inside one select window and returns the byte     *)
(* the peer shifted back during the third exchange.                        *)
C2_ReadFraming ==
    /\ (fn = "ReadReg" /\ reg \in 0..63) =>
          /\ IsPrefix(log, Transaction(128 + reg, 255, 255))
          /\ tpc = "return" =>
                /\ log = Transaction(128 + reg, 255, 255)
                /\ value = peerByte
          /\ tpc \in { "SELECT", "send1", "send2", "send3" } => value = NoByte
    /\ (harness = "driver" /\ fn = "none" /\ result # NoByte) => result = peerByte

C2_Witness ==
    /\ harness = "driver" /\ fn = "none" /\ result = 165 /\ peerByte = 165
    /\ log = Transaction(128 + 63, 255, 255)

---------------------------------------------------------------------------
(* C3: in every reachable state of the program, chip-select is asserted    *)
(* (PB4 an output, driven low) if and only if a register transaction is    *)
(* between its SELECT and its DESELECT.                                    *)
C3_SelectIffTransaction == CSAsserted <=> InTransaction

---------------------------------------------------------------------------
(* C4: over any sequence of register calls the select windows do not       *)
(* overlap: a transaction holds one assert, then its three bytes one       *)
(* after another, then one deassert; between calls select is deasserted,   *)
(* so the next assert comes after the previous deassert.                   *)
C4_SelectExclusive ==
    /\ Len(log) <= 5
    /\ \A i \in 1..Len(log) : log[i][1] = Transaction(0, 0, 0)[i][1]
    /\ CSAsserted <=> Len(log) \in 1..4
    /\ fn = "none" => (~CSAsserted /\ Len(log) \in { 0, 5 })
    /\ spc # "idle" => (CSAsserted /\ InTransaction)

C4_Witness ==
    /\ fn = "ReadReg" /\ tpc = "send1" /\ spc = "idle"
    /\ log = << << "SEL" >> >>
    /\ Bit(USISR, USIOIF) = 1
    /\ CSAsserted

---------------------------------------------------------------------------
(* C5: in every run of main, what follows the settle delay on the bus is   *)
(* exactly the write of 0x14 to register 0x03 and then the write of 0x02   *)
(* to register 0x02, no read; once the second write has deasserted         *)
(* select, no line and no USI register changes any more.                   *)
InitWrites == Transaction(3, 255, 20) \o Transaction(2, 255, 2)

BusQuiet == UNCHANGED << DDRB, PORTB, USIDR, USISR, USICR, latch, log, toggles >>

C5_InitOrder ==
    /\ [](/\ IsPrefix(AfterSettle(log), InitWrites)
          /\ fn # "ReadReg"
          /\ Parked => AfterSettle(log) = InitWrites)
    /\ [][AfterSettle(log) = InitWrites => BusQuiet]_vars

C5_Witness ==
    /\ mpc = "loop"
    /\ AfterSettle(log) = InitWrites
    /\ ~CSAsserted

---------------------------------------------------------------------------
---------------------------------------------------------------------------
(* C7: with the data-out pin wired to data-in, SPISend(b) samples one      *)
(* incoming bit on each of the 8 clock pulses that send b and returns b,   *)
(* for every byte b.                                                       *)
C7_LoopbackFidelity ==
    (harness = "loopback" /\ spc = "done") =>
        /\ ret = b
        /\ Len(diBits) = 8 /\ Len(doBits) = 8
        /\ \A i \in 1..8 : diBits[i] = doBits[i]
        /\ toggles = 16

C7_Witness ==
    /\ harness = "loopback" /\ spc = "done"
    /\ b = 165 /\ ret = 165
    /\ diBits = << 1, 0, 1, 0, 0, 1, 0, 1 >>

---------------------------------------------------------------------------
---------------------------------------------------------------------------
(* C9: for every reg argument in 0..255 the first byte of a transaction    *)
(* has bit 6 clear, bit 7 clear in a write and set in a read, and bits     *)
(* 5..0 equal to reg mod 64.                                               *)
C9_CommandByte ==
    (fn \in { "WriteReg", "ReadReg" } /\ Len(log) >= 2) =>
        /\ log[2][1] = "BYTE"
        /\ Bit(log[2][2], 6) = 0
        /\ Bit(log[2][2], 7) = (IF fn = "ReadReg" THEN 1 ELSE 0)
        /\ log[2][2] % 64 = reg % 64

C9_Witness ==
    /\ fn = "WriteReg" /\ reg = 255 /\ tpc = "return"
    /\ log[2] = << "BYTE", 63 >>

---------------------------------------------------------------------------
(* C10: every call of SPISend toggles the clock exactly 16 times (8 clock  *)
(* cycles, one toggle per pass of the polling loop) and returns only once  *)
(* the counter-overflow flag is set.                                       *)
C10_SixteenToggles ==
    /\ spc \in { "return", "done" } =>
          /\ toggles = 16
          /\ Bit(USISR, USIOIF) = 1
          /\ Len(doBits) = 8
          /\ SCKLevel = 0
    /\ spc \in { "while", "USICR" } =>
          /\ toggles <= 16
          /\ toggles < 16 => Bit(USISR, USIOIF) = 0
          /\ toggles >= 1 => Len(doBits) = (toggles + 1) \div 2
          /\ SCKLevel = toggles % 2
    /\ spc = "USICR" => toggles < 16

C10_Witness ==
    /\ spc = "done" /\ toggles = 16 /\ tpc = "send2"
    /\ mpc = "write2"
    /\ Bit(USISR, USIOIF) = 1

---------------------------------------------------------------------------
(* C11: once the second write has returned, main never re-enters the       *)
(* configuration: no write-register call is in progress or about to start  *)
(* in any later state, a parked program stays parked, and with the sleep   *)
(* instruction skipped (SE is never set) the terminal loop at line 179 is  *)
(* never left and changes nothing.                                         *)
C11_NoReentry ==
    /\ [](Parked => /\ fn = "none" /\ tpc = "idle" /\ spc = "idle"
                    /\ mpc \notin { "write1", "write2" })
    /\ [][Parked => Parked']_vars
    /\ [][mpc = "loop" => (mpc' = "loop" /\ UNCHANGED vars)]_vars

C11_Witness ==
    /\ mpc = "loop" /\ Bit(MCUCR, SE) = 0 /\ SREG_I = FALSE
    /\ fn = "none" /\ tpc = "idle" /\ spc = "idle"
    /\ NumWrites(log) = 2

---------------------------------------------------------------------------
(* C12: SPISend has no timeout and no error value.  It reaches its return  *)
(* only from a pass of the polling loop that saw USIOIF set; while the     *)
(* flag is clear the call stays in the loop, hands nothing back, leaves    *)
(* chip select where it was and main where it was; and on a USI that has   *)
(* stopped reacting the flag stays clear, so the call never returns, a     *)
(* transaction in progress keeps select asserted for ever and main never   *)
(* parks.                                                                  *)
SPISendPolling == spc \in { "while", "USICR" } /\ Bit(USISR, USIOIF) = 0

C12_NoTimeout ==
    /\ [](/\ spc \in { "return", "done" } => Bit(USISR, USIOIF) = 1
          /\ SPISendPolling => (ret = NoByte /\ ~Parked)
          /\ (SPISendPolling /\ tpc \in Sends) => CSAsserted)
    /\ [][SPISendPolling =>
            /\ spc' \in { "while", "USICR" }
            /\ CSAsserted' = CSAsserted
            /\ UNCHANGED << mpc, fn, tpc, ret, result >>]_vars
    /\ [][(SPISendPolling /\ usiStuck) =>
            (SPISendPolling' /\ usiStuck' /\ UNCHANGED << PORTB, log, toggles >>)]_vars

C12_Witness ==
    /\ usiStuck /\ SPISendPolling /\ spc = "USICR"
    /\ mpc = "write1" /\ tpc = "send2" /\ CSAsserted
    /\ toggles = 5 /\ USICR # 0

---------------------------------------------------------------------------
(* C13: on hardware that makes progress every run of main eventually       *)
(* reaches Parked; the bytes the peer shifts back are arbitrary and never  *)
(* looked at.                                                              *)
C13_EventuallyParked == <>Parked

C13_Witness ==
    /\ Parked /\ mpc = "cli"
    /\ peerByte = 0
    /\ AfterSettle(log) = InitWrites

---------------------------------------------------------------------------
(* C14: main leaves Unconfigured exactly once, by the call at line 167,    *)
(* and only with the pins configured (line 159), chip select deasserted    *)
(* (line 161) and the settle delay elapsed (line 163), in that order;      *)
(* until then no register function has been entered, so no SELECT has      *)
(* been executed, the clock has not toggled and no byte has been           *)
(* exchanged.                                                              *)
Unconfigured == mpc \in { "ddrb", "deselect", "delay" } \/ (mpc = "write1" /\ fn = "none")

Settled == \E i \in 1..Len(log) : log[i] = << "SETTLED" >>

C14_ConfigureAfterSettle ==
    /\ [](Unconfigured =>
            /\ fn = "none" /\ tpc = "idle" /\ spc = "idle"
            /\ toggles = 0 /\ SCKLevel = 0
            /\ USIDR = 0 /\ USISR = 0 /\ USICR = 0
            /\ \A i \in 1..Len(log) : log[i][1] # "BYTE")
    /\ [](/\ mpc = "deselect" => (DDRB = MainDDRBValue /\ ~Settled)
          /\ mpc = "delay" => (DDRB = MainDDRBValue /\ ~CSAsserted /\ ~Settled)
          /\ ~Settled => Unconfigured)
    /\ [][(Unconfigured /\ ~Unconfigured') =>
            /\ Settled /\ ~CSAsserted /\ DDRB = MainDDRBValue
            /\ mpc = "write1" /\ fn' = "WriteReg" /\ tpc' = "SELECT"]_vars
    /\ [][~Unconfigured => ~Unconfigured']_vars

C14_Witness ==
    /\ mpc = "write1" /\ fn = "WriteReg" /\ tpc = "SELECT"
    /\ Settled /\ ~CSAsserted /\ toggles = 0
    /\ log[Len(log)] = << "SETTLED" >>

---------------------------------------------------------------------------
(* C15: what a register function puts on the bus is a function of its      *)
(* arguments alone.  For every reg in 0..255 and every value, and for      *)
(* every choice of the bytes shifted back by the peer, the chip-select     *)
(* events and emitted bytes of DIT4192WriteReg(reg, value) are those of    *)
(* EmittedTrace, and those of DIT4192ReadReg(reg) likewise; each byte      *)
(* handed to SPISend is fixed by the arguments and the position in the     *)
(* call, so two runs that differ only in the peer's bytes emit the same    *)
(* trace.                                                                  *)
EmittedTrace(f, r, v) ==
    IF f = "WriteReg"
    THEN Transaction(r % 64, 255, v)
    ELSE Transaction(128 + (r % 64), 255, 255)

C15_PeerCannotInfluence ==
    fn \in { "WriteReg", "ReadReg" } =>
        /\ IsPrefix(log, EmittedTrace(fn, reg, value))
        /\ tpc = "return" => log = EmittedTrace(fn, reg, value)
        /\ (tpc \in Sends /\ spc \notin { "idle", "done" }) =>
              b = EmittedTrace(fn, reg, value)[SendIndex(tpc) + 1][2]
        /\ fn = "WriteReg" => (value \in Byte /\ result = NoByte)

C15_Witness ==
    /\ fn = "WriteReg" /\ tpc = "DESELECT" /\ reg = 255 /\ value = 20
    /\ peerByte = 0 /\ diBits = << 0, 0, 0, 0, 0, 0, 0, 0 >>
    /\ log = SubSeq(Transaction(63, 255, 20), 1, 4)

---------------------------------------------------------------------------
(* C16: SPISend re-arms the USI at entry.  Whatever the status register    *)
(* held when the call was entered (any flags, any counter value 0..15),    *)
(* after line 187 and before the first toggle the overflow flag is clear   *)
(* and the counter is 0; from there the counter equals the number of       *)
(* toggles, the flag stays clear below 16 toggles, and the call returns    *)
(* after exactly 16 toggles, never earlier on a stale flag.                *)
C16_Rearm ==
    /\ (spc = "while" /\ toggles = 0) =>
          (Bit(USISR, USIOIF) = 0 /\ USISR % 16 = 0)
    /\ spc \in { "while", "USICR" } =>
          /\ USISR % 16 = toggles % 16
          /\ Bit(USISR, USIOIF) = (IF toggles < 16 THEN 0 ELSE 1)
    /\ spc = "USICR" => toggles < 16
    /\ spc \in { "return", "done" } => (toggles = 16 /\ USISR % 16 = 0)

C16_Witness ==
    /\ harness = "rearm" /\ spc = "done"
    /\ entrySR = 64 + 9
    /\ toggles = 16

---------------------------------------------------------------------------
(* C17: the clock line is low at every chip-select edge.  SPISend is       *)
(* entered with SCK low and returns with SCK low, so SCK is low in every   *)
(* state in which a SELECT or a DESELECT is about to execute (in main, in  *)
(* DIT4192WriteReg and in DIT4192ReadReg), across every step that changes  *)
(* the chip-select line, and in Parked.                                    *)
C17_ClockIdleAtEdges ==
    /\ [](/\ tpc \in { "SELECT", "DESELECT", "return" } => SCKLevel = 0
          /\ mpc = "deselect" => SCKLevel = 0
          /\ Parked => SCKLevel = 0
          /\ spc \in { "idle", "USIDR", "USISR", "return", "done" } => SCKLevel = 0)
    /\ [][CSAsserted' # CSAsserted => (SCKLevel = 0 /\ SCKLevel' = 0)]_vars

C17_Witness ==
    /\ fn = "ReadReg" /\ tpc = "DESELECT" /\ spc = "idle"
    /\ CSAsserted /\ SCKLevel = 0
    /\ toggles = 16 /\ Len(log) = 4

---------------------------------------------------------------------------
(* C18: SELECT and DESELECT change only bit PB4 of PORTB.  Across every    *)
(* step that executes one of them (line 161 in main, lines 199 and 203 in  *)
(* DIT4192WriteReg, lines 208 and 212 in DIT4192ReadReg) the other seven   *)
(* bits of PORTB, DDRB, USIDR, USISR, USICR and the output latch keep      *)
(* their values, and PB4 becomes 0 for SELECT and 1 for DESELECT; across   *)
(* every step of SPISend bit PB4 of PORTB and DDRB keep theirs.            *)
OtherPortBits(portb) == BitAnd(portb, BitNot(_BV(DIT4192_CS)))

AtSELECT == tpc = "SELECT"

AtDESELECT == tpc = "DESELECT" \/ mpc = "deselect"

InSPISend == spc \in { "USIDR", "USISR", "while", "USICR", "return" }

C18_SelectFrame ==
    /\ [][(AtSELECT \/ AtDESELECT) =>
            /\ OtherPortBits(PORTB') = OtherPortBits(PORTB)
            /\ Bit(PORTB', DIT4192_CS) = (IF AtSELECT THEN 0 ELSE 1)
            /\ UNCHANGED << DDRB, USIDR, USISR, USICR, latch >>]_vars
    /\ [][InSPISend =>
            /\ Bit(PORTB', DIT4192_CS) = Bit(PORTB, DIT4192_CS)
            /\ DDRB' = DDRB]_vars

C18_Witness ==
    /\ fn = "ReadReg" /\ tpc = "send1" /\ spc = "idle"
    /\ CSAsserted /\ OtherPortBits(PORTB) = 0
    /\ USISR = 192 /\ USICR # 0
    /\ log = << << "SEL" >> >>

=============================================================================
